---- MODULE Spec2Model ----
(***************************************************************************)
(* A model of the mortgage calculation engine (mortgagecalculatorlib.py)   *)
(* and of the batch orchestrator (mortgagecalculator_batch.py).            *)
(*                                                                         *)
(* Numbers.  The program computes with Python floats.  The model computes  *)
(* with exact rationals [n, d] (d > 0, lowest terms); round(x, k) is       *)
(* Python's round: nearest multiple of 10^-k, ties to the even one.  The   *)
(* amortised payment needs (1 + r)^months, which does not fit a machine    *)
(* integer, so it is computed over arbitrary-precision naturals (Big).     *)
(***************************************************************************)
EXTENDS Integers, Sequences, FiniteSets, TLC

VARIABLES
    conf,         \* the PropertiesListConfig handed to the operation
    fnCall,       \* last call of a pure library function and its outcome
    validation,   \* outcome of validate_loan_config_and_properties(cfg)
    mortgage,     \* calculate_mortgage_from_settings(prop, cfg): object and result
    pc,           \* position of batch_calculate
    idx,          \* batch_calculate: 1-based index of the property being processed
    results,      \* batch_calculate: the list `results`
    calcDone,     \* batch_calculate: properties whose result the Calculator produced
    error,        \* batch_calculate: exception that ended the run ("none" if none)
    csvWritten,   \* batch_calculate: df.to_csv has written the data file
    reportWritten \* batch_calculate: generate_markdown_report has written the report

vars == <<conf, fnCall, validation, mortgage, pc, idx, results, calcDone,
          error, csvWritten, reportWritten>>

-----------------------------------------------------------------------------
(* Bounds of the model *)

MaxBrackets == 3     \* longest bracket list
MaxProps == 2        \* most properties in a batch
MaxYears == 2        \* longest loan term, in years

(* Program constant *)
MONTHS_IN_YEAR == 12

-----------------------------------------------------------------------------
(* Exact rational arithmetic *)

Abs(x) == IF x < 0 THEN -x ELSE x

RECURSIVE GCD(_, _)
GCD(a, b) == IF b = 0 THEN a ELSE GCD(b, a % b)

Q(n, d) ==
    LET g == GCD(Abs(n), Abs(d))
        s == IF d < 0 THEN -1 ELSE 1
    IN  [n |-> s * (n \div g), d |-> s * (d \div g)]

I(k) == [n |-> k, d |-> 1]
Zero == I(0)

QAdd(x, y) == Q(x.n * y.d + y.n * x.d, x.d * y.d)
QSub(x, y) == Q(x.n * y.d - y.n * x.d, x.d * y.d)
QMul(x, y) == Q(x.n * y.n, x.d * y.d)
QDiv(x, y) == Q(x.n * y.d, x.d * y.n)          \* y # 0
QLt(x, y) == x.n * y.d < y.n * x.d
QLe(x, y) == x.n * y.d <= y.n * x.d
QGt(x, y) == QLt(y, x)
QGe(x, y) == QLe(y, x)

RECURSIVE Pow10(_)
Pow10(k) == IF k = 0 THEN 1 ELSE 10 * Pow10(k - 1)

\* nearest integer to n/d (d > 0), a tie going to the even neighbour
RoundHalfEven(n, d) ==
    LET f == n \div d
        r == n % d
    IN  IF 2 * r < d THEN f
        ELSE IF 2 * r > d THEN f + 1
        ELSE IF f % 2 = 0 THEN f ELSE f + 1

\* round(x, ndigits) left out: the value kept as it is
RoundSkipped(x, ndigits) == x

\* Python's round(x, ndigits)
round(x, ndigits) == Q(RoundHalfEven(x.n * Pow10(ndigits), x.d), Pow10(ndigits))

RECURSIVE QSum(_)
QSum(s) == IF s = <<>> THEN Zero ELSE QAdd(Head(s), QSum(Tail(s)))

-----------------------------------------------------------------------------
(* Arbitrary-precision naturals: little-endian sequences of limbs in       *)
(* 0 .. BigBase-1 without leading zero limbs; <<>> is 0.  The operators    *)
(* recurse by halving, which keeps the evaluation shallow.                 *)

BigBase == Pow10(3)

\* the limbs of x up to its highest non-zero one
BigNorm(x) ==
    LET nz == {i \in 1..Len(x) : x[i] # 0}
    IN  IF nz = {} THEN <<>>
        ELSE SubSeq(x, 1, CHOOSE i \in nz : \A j \in nz : j <= i)

RECURSIVE BigFromNat(_)
BigFromNat(k) ==
    IF k = 0 THEN <<>> ELSE <<k % BigBase>> \o BigFromNat(k \div BigBase)

\* <<limbs, carry out>> of s[lo..hi] + cin, for integers s[i] of either sign
RECURSIVE CarryRange(_, _, _, _)
CarryRange(s, lo, hi, cin) ==
    IF lo = hi
    THEN LET t == s[lo] + cin IN <<<<t % BigBase>>, t \div BigBase>>
    ELSE LET mid == (lo + hi) \div 2
             L == CarryRange(s, lo, mid, cin)
             H == CarryRange(s, mid + 1, hi, L[2])
         IN  <<L[1] \o H[1], H[2]>>

\* the natural number sum of s[i] * BigBase^(i-1), which is >= 0
BigCarry(s) ==
    IF s = <<>> THEN <<>>
    ELSE LET r == CarryRange(s, 1, Len(s), 0)
         IN  BigNorm(r[1] \o BigFromNat(r[2]))

Limb(x, i) == IF i >= 1 /\ i <= Len(x) THEN x[i] ELSE 0

Max(a, b) == IF a >= b THEN a ELSE b

BigAdd(x, y) == BigCarry([i \in 1..Max(Len(x), Len(y)) |-> Limb(x, i) + Limb(y, i)])

\* x - y for x >= y
BigSub(x, y) == BigCarry([i \in 1..Len(x) |-> x[i] - Limb(y, i)])

\* sum of x[i] * y[k + 1 - i] for i in lo..hi
RECURSIVE Convolve(_, _, _, _, _)
Convolve(x, y, k, lo, hi) ==
    IF lo > hi THEN 0
    ELSE IF lo = hi THEN x[lo] * Limb(y, k + 1 - lo)
    ELSE LET mid == (lo + hi) \div 2
         IN  Convolve(x, y, k, lo, mid) + Convolve(x, y, k, mid + 1, hi)

BigMul(x, y) ==
    IF x = <<>> \/ y = <<>> THEN <<>>
    ELSE BigCarry([k \in 1..(Len(x) + Len(y) - 1) |->
                      Convolve(x, y, k, Max(1, k + 1 - Len(y)),
                               IF k < Len(x) THEN k ELSE Len(x))])

\* x ^ m for m >= 0, by squaring
RECURSIVE BigPow(_, _)
BigPow(x, m) ==
    IF m = 0 THEN <<1>>
    ELSE LET h == BigPow(x, m \div 2)
             sq == BigMul(h, h)
         IN  IF m % 2 = 0 THEN sq ELSE BigMul(sq, x)

\* -1, 0, 1 as x <, =, > y
BigCmp(x, y) ==
    IF Len(x) < Len(y) THEN -1
    ELSE IF Len(x) > Len(y) THEN 1
    ELSE LET df == {i \in 1..Len(x) : x[i] # y[i]}
         IN  IF df = {} THEN 0
             ELSE LET top == CHOOSE i \in df : \A j \in df : j <= i
                  IN  IF x[top] < y[top] THEN -1 ELSE 1

\* floor(x / y) as an integer, for y > 0 and a quotient that fits one: the
\* quotient without its last decimal digit, then the largest digit that fits
RECURSIVE BigFloorDiv(_, _)
BigFloorDiv(x, y) ==
    IF BigCmp(x, y) < 0 THEN 0
    ELSE LET hi == 10 * BigFloorDiv(x, BigMul(y, <<10>>))
             Fits(d) == BigCmp(BigMul(BigFromNat(hi + d), y), x) <= 0
         IN  hi + (IF Fits(5)
                   THEN IF Fits(8) THEN (IF Fits(9) THEN 9 ELSE 8)
                        ELSE IF Fits(7) THEN 7 ELSE IF Fits(6) THEN 6 ELSE 5
                   ELSE IF Fits(3) THEN (IF Fits(4) THEN 4 ELSE 3)
                        ELSE IF Fits(2) THEN 2 ELSE IF Fits(1) THEN 1 ELSE 0)

\* nearest integer to x / y (x >= 0, y > 0), a tie going to the even neighbour
BigRoundHalfEven(x, y) ==
    LET f == BigFloorDiv(x, y)
        r == BigSub(x, BigMul(BigFromNat(f), y))
        c == BigCmp(BigAdd(r, r), y)
    IN  IF c < 0 THEN f
        ELSE IF c > 0 THEN f + 1
        ELSE IF f % 2 = 0 THEN f ELSE f + 1

(* A rational with arbitrary-precision terms: s * num / den, s in {-1,0,1} *)
BigRat(s, num, den) == [s |-> s, num |-> num, den |-> den]

Sign(k) == IF k < 0 THEN -1 ELSE IF k > 0 THEN 1 ELSE 0

BigRatOfQ(x) == BigRat(Sign(x.n), BigFromNat(Abs(x.n)), BigFromNat(x.d))

BigRatEq(x, y) ==
    /\ x.s = y.s
    /\ x.s # 0 => BigCmp(BigMul(x.num, y.den), BigMul(y.num, x.den)) = 0

BigRatMul(x, y) == BigRat(x.s * y.s, BigMul(x.num, y.num), BigMul(x.den, y.den))

\* x / y for y # 0
BigRatDiv(x, y) == BigRat(x.s * y.s, BigMul(x.num, y.den), BigMul(x.den, y.num))

BigRatSub(x, y) ==
    LET a == BigMul(x.num, y.den)
        b == BigMul(y.num, x.den)
        d == BigMul(x.den, y.den)
        c == BigCmp(a, b)
    IN  IF x.s = 0 THEN BigRat(-y.s, y.num, y.den)
        ELSE IF y.s = 0 THEN x
        ELSE IF x.s # y.s THEN BigRat(x.s, BigAdd(a, b), d)
        ELSE IF c = 0 THEN BigRat(0, <<>>, <<1>>)
        ELSE IF c > 0 THEN BigRat(x.s, BigSub(a, b), d)
        ELSE BigRat(-x.s, BigSub(b, a), d)

\* x ^ m for an integer m >= 0
BigRatPow(x, m) ==
    IF m = 0 THEN BigRat(1, <<1>>, <<1>>)
    ELSE BigRat(IF m % 2 = 0 THEN x.s * x.s ELSE x.s, BigPow(x.num, m), BigPow(x.den, m))

\* Python's round(x, ndigits) of a BigRat, as a rational
BigRatRound(x, ndigits) ==
    Q(x.s * BigRoundHalfEven(BigMul(x.num, BigFromNat(Pow10(ndigits))), x.den),
      Pow10(ndigits))

-----------------------------------------------------------------------------
(* Outcome of a Python call: a returned value or a raised exception *)

Return(v) == [exc |-> "none", val |-> v]
Raise(e) == [exc |-> e, val |-> Zero]
RaiseWith(e, payload) == [exc |-> e, val |-> payload]

\* Python's None (of an Optional[str]) and `x or ""` for a string, a float
\* and an int
None == "None"
StrOrBlank(x) == IF x = None THEN "" ELSE x
NumOrBlank(x) == IF x = Zero THEN "" ELSE x
IntOrBlank(x) == IF x = 0 THEN "" ELSE x

-----------------------------------------------------------------------------
(* mortgagecalculatorlib.py: Tax Bracket Resolver *)

Bracket(t, r) == [threshold |-> t, rate |-> r]

percent_to_decimal(percentage) == QDiv(percentage, I(100))

\* FirstExceeded with `>=` for the `>` of line 135
RECURSIVE FirstReached(_, _, _)
FirstReached(value, brackets, i) ==
    IF i > Len(brackets) THEN 0
    ELSE IF QGe(value, brackets[i].threshold) THEN i
    ELSE FirstReached(value, brackets, i + 1)

\* index of the first bracket the loop of lines 134-136 returns from, 0 if none
RECURSIVE FirstExceeded(_, _, _)
FirstExceeded(value, brackets, i) ==
    IF i > Len(brackets) THEN 0
    ELSE IF QGt(value, brackets[i].threshold) THEN i
    ELSE FirstExceeded(value, brackets, i + 1)

\* the resolver falling back to the first bracket instead of the last
ResolveFallbackFirst(value, brackets) ==
    IF brackets = <<>> THEN Raise("ValueError")
    ELSE LET i == FirstExceeded(value, brackets, 1)
         IN  IF i > 0 THEN Return(percent_to_decimal(brackets[i].rate))
             ELSE Return(percent_to_decimal(brackets[1].rate))

\* the resolver raising when the value exceeds no threshold
ResolveNoFallback(value, brackets) ==
    IF brackets = <<>> THEN Raise("ValueError")
    ELSE LET i == FirstExceeded(value, brackets, 1)
         IN  IF i > 0 THEN Return(percent_to_decimal(brackets[i].rate))
             ELSE Raise("ValueError")

\* the resolver returning from the last bracket the value exceeds
ResolveLastExceeded(value, brackets) ==
    IF brackets = <<>> THEN Raise("ValueError")
    ELSE LET exceeded == {i \in 1..Len(brackets) : QGt(value, brackets[i].threshold)}
             last == CHOOSE i \in exceeded : \A j \in exceeded : j <= i
         IN  IF exceeded # {} THEN Return(percent_to_decimal(brackets[last].rate))
             ELSE Return(percent_to_decimal(brackets[Len(brackets)].rate))

land_transfer_tax_rate_decimal(value, brackets) ==
    IF brackets = <<>> THEN Raise("ValueError")
    ELSE LET i == FirstExceeded(value, brackets, 1)
         IN  IF i > 0 THEN Return(percent_to_decimal(brackets[i].rate))
             ELSE Return(percent_to_decimal(brackets[Len(brackets)].rate))

-----------------------------------------------------------------------------
(* mortgagecalculatorlib.py: amortised payment *)

\* the yearly rate taken as the monthly rate
MonthlyRateIsYearlyRate(yearly_rate_decimal) == yearly_rate_decimal

calculate_monthly_interest_rate(yearly_rate_decimal) ==
    QDiv(yearly_rate_decimal, I(MONTHS_IN_YEAR))

\* pow(1 + monthly_rate, months), for months >= 0
GrowthFactor(monthly_rate, months) ==
    BigRatPow(BigRatOfQ(QAdd(I(1), monthly_rate)), months)

\* calculate_mortgage_payment dividing by the years, not the months, when the
\* rate is zero
PaymentZeroRatePerYear(yearly_rate_decimal, years, loan_amount) ==
    IF yearly_rate_decimal = Zero
    THEN IF years = 0 THEN Raise("ZeroDivisionError")
         ELSE Return(BigRatOfQ(QDiv(loan_amount, I(years))))
    ELSE LET monthly_rate == calculate_monthly_interest_rate(yearly_rate_decimal)
             months == years * MONTHS_IN_YEAR
             growth == GrowthFactor(monthly_rate, months)
             numerator == BigRatMul(BigRatMul(BigRatOfQ(loan_amount),
                                              BigRatOfQ(monthly_rate)), growth)
             denominator == BigRatSub(growth, BigRat(1, <<1>>, <<1>>))
         IN  IF denominator.s = 0 THEN Raise("ZeroDivisionError")
             ELSE Return(BigRatDiv(numerator, denominator))

\* The returned payment is a BigRat.  A float division by zero raises
\* ZeroDivisionError.
calculate_mortgage_payment(yearly_rate_decimal, years, loan_amount) ==
    IF yearly_rate_decimal = Zero
    THEN IF years * MONTHS_IN_YEAR = 0 THEN Raise("ZeroDivisionError")
         ELSE Return(BigRatOfQ(QDiv(loan_amount, I(years * MONTHS_IN_YEAR))))
    ELSE LET monthly_rate == calculate_monthly_interest_rate(yearly_rate_decimal)
             months == years * MONTHS_IN_YEAR
             growth == GrowthFactor(monthly_rate, months)
             numerator == BigRatMul(BigRatMul(BigRatOfQ(loan_amount),
                                              BigRatOfQ(monthly_rate)), growth)
             denominator == BigRatSub(growth, BigRat(1, <<1>>, <<1>>))
         IN  IF denominator.s = 0 THEN Raise("ZeroDivisionError")
             ELSE Return(BigRatDiv(numerator, denominator))

\* the yearly tax spread over the months of the year
YearlyTaxPerMonth(value, rate_decimal) ==
    QDiv(QMul(value, rate_decimal), I(MONTHS_IN_YEAR))

calculate_yearly_tax(value, rate_decimal) == QMul(value, rate_decimal)

\* the tax taken at the rate of the last bracket
LandTransferTaxAtLastRate(value, brackets) ==
    IF brackets = <<>> THEN Raise("ValueError")
    ELSE Return(QMul(value, percent_to_decimal(brackets[Len(brackets)].rate)))

calculate_land_transfer_tax(value, brackets) ==
    LET rate == land_transfer_tax_rate_decimal(value, brackets)
    IN  IF rate.exc # "none" THEN rate ELSE Return(QMul(value, rate.val))

-----------------------------------------------------------------------------
(* mortgagecalculatorlib.py: Validator *)

\* one formatted message: its fixed text and the values interpolated into it
Msg(text, args) == [text |-> text, args |-> args]

\* `if cond: errors.append(msg)`
When(cond, msg) == IF cond THEN <<msg>> ELSE <<>>

\* BracketErrors with `<` for the `<=` of line 96
RECURSIVE BracketErrorsEqualAllowed(_, _)
BracketErrorsEqualAllowed(brackets, i) ==
    IF i > Len(brackets) THEN <<>>
    ELSE LET bracket == brackets[i]
         IN  When(QLt(bracket.rate, Zero),
                  Msg("Land transfer tax bracket rate cannot be negative",
                      <<i - 1, bracket.rate>>))
             \o When(QLt(bracket.threshold, Zero),
                  Msg("Land transfer tax bracket threshold cannot be negative",
                      <<i - 1, bracket.threshold>>))
             \o (IF i > 1
                 THEN LET prev_bracket == brackets[i - 1]
                      IN  When(QLt(prev_bracket.threshold, bracket.threshold),
                               Msg("Land transfer tax brackets must be ordered from highest threshold to lowest",
                                   <<i - 2, prev_bracket.threshold, i - 1, bracket.threshold>>))
                 ELSE <<>>)
             \o BracketErrorsEqualAllowed(brackets, i + 1)

\* lines 88-101 for the brackets from (1-based) position i on; the messages
\* carry Python's 0-based index i - 1
RECURSIVE BracketErrors(_, _)
BracketErrors(brackets, i) ==
    IF i > Len(brackets) THEN <<>>
    ELSE LET bracket == brackets[i]
         IN  When(QLt(bracket.rate, Zero),
                  Msg("Land transfer tax bracket rate cannot be negative",
                      <<i - 1, bracket.rate>>))
             \o When(QLt(bracket.threshold, Zero),
                  Msg("Land transfer tax bracket threshold cannot be negative",
                      <<i - 1, bracket.threshold>>))
             \o (IF i > 1
                 THEN LET prev_bracket == brackets[i - 1]
                      IN  When(QLe(prev_bracket.threshold, bracket.threshold),
                               Msg("Land transfer tax brackets must be ordered from highest threshold to lowest",
                                   <<i - 2, prev_bracket.threshold, i - 1, bracket.threshold>>))
                 ELSE <<>>)
             \o BracketErrors(brackets, i + 1)

get_property_config_errors(property_cfg, loan_cfg) ==
    When(QLe(property_cfg.value, Zero),
         Msg("Property value must be positive", <<property_cfg.value>>))
    \o When(QLt(property_cfg.property_tax, Zero),
         Msg("Property tax rate cannot be negative", <<property_cfg.property_tax>>))
    \o When(QLt(property_cfg.school_tax, Zero),
         Msg("School tax rate cannot be negative", <<property_cfg.school_tax>>))
    \o When(QLt(property_cfg.condo_fees, Zero),
         Msg("Condo fees cannot be negative", <<property_cfg.condo_fees>>))
    \o When(QLt(property_cfg.yearly_home_insurance, Zero),
         Msg("Home insurance cannot be negative", <<property_cfg.yearly_home_insurance>>))
    \o When(QLe(property_cfg.area_sqft, Zero),
         Msg("Area (sqft) must be positive", <<property_cfg.area_sqft>>))
    \o (IF property_cfg.land_transfer_tax_brackets = <<>>
        THEN <<Msg("Land transfer tax brackets must be configured", <<>>)>>
        ELSE BracketErrors(property_cfg.land_transfer_tax_brackets, 1))
    \o When(QGe(loan_cfg.loan_parameters.down_payment, property_cfg.value),
         Msg("Down payment cannot be >= property value",
             <<loan_cfg.loan_parameters.down_payment, property_cfg.value>>))

\* lines 44-45 for the properties from position k on
RECURSIVE PropertiesErrors(_, _)
PropertiesErrors(loan_cfg, k) ==
    IF k > Len(loan_cfg.properties) THEN <<>>
    ELSE get_property_config_errors(loan_cfg.properties[k], loan_cfg)
         \o PropertiesErrors(loan_cfg, k + 1)

\* ValidationErrors without the upper limit of the interest rate (line 24)
ValidationErrorsNoUpperLimit(loan_cfg) ==
    LET lp == loan_cfg.loan_parameters
        ne == loan_cfg.necessary_expenses
    IN  When(QLt(lp.interest_rate, Zero),
             Msg("Interest rate must be between 0 and 100%", <<lp.interest_rate>>))
        \o When(lp.years_of_loan <= 0,
             Msg("Loan term must be positive", <<lp.years_of_loan>>))
        \o When(QLt(lp.down_payment, Zero),
             Msg("Down payment cannot be negative", <<lp.down_payment>>))
        \o When(QLe(lp.monthly_salary, Zero),
             Msg("Monthly salary must be positive", <<lp.monthly_salary>>))
        \o When(QLt(lp.monthly_debt_payment, Zero),
             Msg("Monthly debt payment cannot be negative", <<lp.monthly_debt_payment>>))
        \o When(QLt(ne.notary_cost, Zero),
             Msg("Notary cost cannot be negative", <<ne.notary_cost>>))
        \o When(QLt(ne.inspection_cost, Zero),
             Msg("Inspection cost cannot be negative", <<ne.inspection_cost>>))
        \o PropertiesErrors(loan_cfg, 1)

\* the list `errors` at line 47
ValidationErrors(loan_cfg) ==
    LET lp == loan_cfg.loan_parameters
        ne == loan_cfg.necessary_expenses
    IN  When(QLt(lp.interest_rate, Zero) \/ QGt(lp.interest_rate, I(100)),
             Msg("Interest rate must be between 0 and 100%", <<lp.interest_rate>>))
        \o When(lp.years_of_loan <= 0,
             Msg("Loan term must be positive", <<lp.years_of_loan>>))
        \o When(QLt(lp.down_payment, Zero),
             Msg("Down payment cannot be negative", <<lp.down_payment>>))
        \o When(QLe(lp.monthly_salary, Zero),
             Msg("Monthly salary must be positive", <<lp.monthly_salary>>))
        \o When(QLt(lp.monthly_debt_payment, Zero),
             Msg("Monthly debt payment cannot be negative", <<lp.monthly_debt_payment>>))
        \o When(QLt(ne.notary_cost, Zero),
             Msg("Notary cost cannot be negative", <<ne.notary_cost>>))
        \o When(QLt(ne.inspection_cost, Zero),
             Msg("Inspection cost cannot be negative", <<ne.inspection_cost>>))
        \o PropertiesErrors(loan_cfg, 1)

\* the validator raising at the first violation it finds
ValidateFailFast(loan_cfg) ==
    LET errors == ValidationErrors(loan_cfg)
    IN  IF errors # <<>>
        THEN RaiseWith("ValidationError",
                       [prefix |-> "Loan configuration validation failed:",
                        messages |-> <<Head(errors)>>])
        ELSE Return(None)

validate_loan_config_and_properties(loan_cfg) ==
    LET errors == ValidationErrors(loan_cfg)
    IN  IF errors # <<>>
        THEN RaiseWith("ValidationError",
                       [prefix |-> "Loan configuration validation failed:",
                        messages |-> errors])
        ELSE Return(None)

-----------------------------------------------------------------------------
(* mortgagecalculatorlib.py: Mortgage Calculator *)

\* the element of a one-element set: {e : x \in {v}} evaluates v once for all
\* the uses of x in e
TheOne(S) == CHOOSE e \in S : TRUE

\* CalculatedMortgage.__init__: the attributes of self, or the exception of
\* the first statement that raises.  The values of lines 205 and 219 are
\* bound once (payment, mortgage_payment, total_monthly_costs).
CalculatedMortgage(property_details, cfg) ==
    LET lp == cfg.loan_parameters
        ne == cfg.necessary_expenses
        interest_rate_decimal == percent_to_decimal(lp.interest_rate)
        property_tax_decimal == percent_to_decimal(property_details.property_tax)
        school_tax_decimal == percent_to_decimal(property_details.school_tax)
        area_sqft == property_details.area_sqft    \* float(area_sqft or 0)
        brackets == property_details.land_transfer_tax_brackets
        rate == land_transfer_tax_rate_decimal(property_details.value, brackets)
        tax == calculate_land_transfer_tax(property_details.value, brackets)
        land_transfer_tax_rate == round(rate.val, 7)
        land_transfer_tax == round(tax.val, 2)
        one_time_costs == <<ne.notary_cost, ne.inspection_cost, land_transfer_tax>>
        all_one_time_costs == round(QSum(one_time_costs), 2)
        cash_to_close == round(QAdd(lp.down_payment, all_one_time_costs), 2)
        yearly_property_tax ==
            round(calculate_yearly_tax(property_details.value, property_tax_decimal), 2)
        monthly_property_tax == round(QDiv(yearly_property_tax, I(MONTHS_IN_YEAR)), 2)
        yearly_school_tax ==
            round(calculate_yearly_tax(property_details.value, school_tax_decimal), 2)
        monthly_school_tax == round(QDiv(yearly_school_tax, I(MONTHS_IN_YEAR)), 2)
        yearly_home_insurance == round(property_details.yearly_home_insurance, 2)
        monthly_home_insurance == round(QDiv(yearly_home_insurance, I(MONTHS_IN_YEAR)), 2)
        yearly_costs == <<yearly_property_tax, yearly_school_tax, yearly_home_insurance>>
        total_yearly_costs == round(QSum(yearly_costs), 2)
        loan_amount == round(QSub(property_details.value, lp.down_payment), 2)
        monthly_interest_rate == calculate_monthly_interest_rate(interest_rate_decimal)
        monthly_interest == round(QMul(loan_amount, monthly_interest_rate), 2)
        yearly_interest == round(QMul(monthly_interest, I(MONTHS_IN_YEAR)), 2)
        price_per_sqft ==
            IF QGt(area_sqft, Zero)
            THEN round(QDiv(property_details.value, area_sqft), 2) ELSE Zero
    IN  IF rate.exc # "none" THEN Raise(rate.exc)
        ELSE TheOne({
          IF payment.exc # "none" THEN Raise(payment.exc)
          ELSE TheOne({
            LET total_payments ==
                    QMul(mortgage_payment, I(lp.years_of_loan * MONTHS_IN_YEAR))
                total_interest == round(QSub(total_payments, loan_amount), 2)
                monthly_costs == <<mortgage_payment, property_details.condo_fees,
                                   monthly_property_tax, monthly_school_tax,
                                   monthly_home_insurance>>
            IN  TheOne({
              LET affordability_monthly_costs ==
                      QAdd(total_monthly_costs, lp.monthly_debt_payment)
                  gds_ratio ==
                      IF QGt(lp.monthly_salary, Zero)
                      THEN round(QMul(QDiv(total_monthly_costs, lp.monthly_salary),
                                      I(100)), 2)
                      ELSE Zero
                  tds_ratio ==
                      IF QGt(lp.monthly_salary, Zero)
                      THEN round(QMul(QDiv(affordability_monthly_costs,
                                           lp.monthly_salary), I(100)), 2)
                      ELSE Zero
              IN  Return([land_transfer_tax_rate |-> land_transfer_tax_rate,
                          land_transfer_tax |-> land_transfer_tax,
                          all_one_time_costs |-> all_one_time_costs,
                          cash_to_close |-> cash_to_close,
                          yearly_property_tax |-> yearly_property_tax,
                          monthly_property_tax |-> monthly_property_tax,
                          yearly_school_tax |-> yearly_school_tax,
                          monthly_school_tax |-> monthly_school_tax,
                          monthly_home_insurance |-> monthly_home_insurance,
                          total_yearly_costs |-> total_yearly_costs,
                          loan_amount |-> loan_amount,
                          mortgage_payment |-> mortgage_payment,
                          monthly_interest |-> monthly_interest,
                          yearly_interest |-> yearly_interest,
                          total_interest |-> total_interest,
                          price_per_sqft |-> price_per_sqft,
                          total_monthly_costs |-> total_monthly_costs,
                          gds_ratio |-> gds_ratio,
                          tds_ratio |-> tds_ratio])
              : total_monthly_costs \in {round(QSum(monthly_costs), 2)}})
            : mortgage_payment \in {BigRatRound(payment.val, 2)}})
          : payment \in {calculate_mortgage_payment(interest_rate_decimal,
                                                    lp.years_of_loan, loan_amount)}})

\* CalculatedMortgage.to_result: the flattened MortgageResult
to_result(self, property_details, cfg) ==
    [Description |-> StrOrBlank(property_details.description),
     Address |-> StrOrBlank(property_details.address),
     Link |-> StrOrBlank(property_details.link),
     Bedrooms |-> IntOrBlank(property_details.bedrooms),
     Bathrooms |-> IntOrBlank(property_details.bathrooms),
     Area |-> NumOrBlank(property_details.area_sqft),
     Year_Built |-> IntOrBlank(property_details.year_built),
     Property_Value |-> property_details.value,
     Down_Payment |-> cfg.loan_parameters.down_payment,
     Loan_Amount |-> self.loan_amount,
     Interest_Rate |-> cfg.loan_parameters.interest_rate,
     Years_of_Loan |-> cfg.loan_parameters.years_of_loan,
     Monthly_Mortgage_Payment |-> self.mortgage_payment,
     Monthly_Interest |-> self.monthly_interest,
     Yearly_Interest |-> self.yearly_interest,
     Total_Interest |-> self.total_interest,
     Condo_Fees |-> property_details.condo_fees,
     Total_Monthly_Costs |-> self.total_monthly_costs,
     Land_Transfer_Tax_Rate |-> QMul(self.land_transfer_tax_rate, I(100)),
     Land_Transfer_Tax |-> self.land_transfer_tax,
     Notary_Cost |-> cfg.necessary_expenses.notary_cost,
     Inspection_Cost |-> cfg.necessary_expenses.inspection_cost,
     Total_One_Time_Costs |-> self.all_one_time_costs,
     Cash_to_Close |-> self.cash_to_close,
     Property_Tax_Rate |-> property_details.property_tax,
     Yearly_Property_Tax |-> self.yearly_property_tax,
     Monthly_Property_Tax |-> self.monthly_property_tax,
     School_Tax_Rate |-> property_details.school_tax,
     Yearly_School_Tax |-> self.yearly_school_tax,
     Monthly_School_Tax |-> self.monthly_school_tax,
     Yearly_Home_Insurance |-> property_details.yearly_home_insurance,
     Monthly_Home_Insurance |-> self.monthly_home_insurance,
     Total_Yearly_Costs |-> self.total_yearly_costs,
     Price_Per_Sqft |-> self.price_per_sqft,
     Monthly_Salary |-> cfg.loan_parameters.monthly_salary,
     Monthly_Debt_Payment |-> cfg.loan_parameters.monthly_debt_payment,
     GDS_Ratio |-> self.gds_ratio,
     TDS_Ratio |-> self.tds_ratio]

\* what lines 285-286 give for an object `calculated` of other attributes
RunOf(calculated, config, cfg) ==
    [self |-> calculated,
     out |-> IF calculated.exc # "none" THEN calculated
             ELSE Return(to_result(calculated.val, config, cfg))]

\* the calculator taking the years for the months in line 209
MortgageRunInterestPerYear(config, cfg) ==
    TheOne({RunOf(IF c.exc # "none" THEN c
                  ELSE Return([c.val EXCEPT !.total_interest =
                          round(QSub(QMul(c.val.mortgage_payment,
                                          I(cfg.loan_parameters.years_of_loan)),
                                     c.val.loan_amount), 2)]),
                  config, cfg)
            : c \in {CalculatedMortgage(config, cfg)}})

\* the calculator leaving out the `* 100` of lines 221-222
MortgageRunRatioAsFraction(config, cfg) ==
    TheOne({RunOf(IF c.exc # "none" \/ ~QGt(cfg.loan_parameters.monthly_salary, Zero)
                  THEN c
                  ELSE Return([c.val EXCEPT
                          !.gds_ratio =
                              round(QDiv(c.val.total_monthly_costs,
                                         cfg.loan_parameters.monthly_salary), 2),
                          !.tds_ratio =
                              round(QDiv(QAdd(c.val.total_monthly_costs,
                                              cfg.loan_parameters.monthly_debt_payment),
                                         cfg.loan_parameters.monthly_salary), 2)]),
                  config, cfg)
            : c \in {CalculatedMortgage(config, cfg)}})

\* lines 285-286: the object line 285 constructs and what line 286 returns
\* the calculation reading the first property of the batch
MortgageRunFirstProperty(config, cfg) ==
    TheOne({RunOf(c, config, cfg) :
            c \in {CalculatedMortgage(IF cfg.properties = <<>> THEN config
                                      ELSE cfg.properties[1], cfg)}})

\* the total monthly costs without the condo fees
MortgageRunWithoutCondoFees(config, cfg) ==
    TheOne({RunOf(IF c.exc # "none" THEN c
                  ELSE Return([c.val EXCEPT !.total_monthly_costs =
                                  round(QSub(@, config.condo_fees), 2)]),
                  config, cfg)
            : c \in {CalculatedMortgage(config, cfg)}})

\* the TDS ratio with the debt payment subtracted from the monthly costs
MortgageRunDebtSubtracted(config, cfg) ==
    TheOne({RunOf(IF c.exc # "none" THEN c
                  ELSE Return([c.val EXCEPT !.tds_ratio =
                          IF QGt(cfg.loan_parameters.monthly_salary, Zero)
                          THEN round(QMul(QDiv(QSub(c.val.total_monthly_costs,
                                                    cfg.loan_parameters.monthly_debt_payment),
                                               cfg.loan_parameters.monthly_salary),
                                          I(100)), 2)
                          ELSE Zero]),
                  config, cfg)
            : c \in {CalculatedMortgage(config, cfg)}})

\* the calculation taking notary and inspection cost from the property
MortgageRunPropertyExpenses(config, cfg) ==
    TheOne({RunOf(c, config, cfg) :
            c \in {CalculatedMortgage(config,
                      [cfg EXCEPT !.necessary_expenses =
                          [notary_cost |-> config.notary_cost,
                           inspection_cost |-> config.inspection_cost]])}})

MortgageRun(config, cfg) ==
    TheOne({[self |-> calculated,
             out |-> IF calculated.exc # "none" THEN calculated
                     ELSE Return(to_result(calculated.val, config, cfg))]
            : calculated \in {CalculatedMortgage(config, cfg)}})

calculate_mortgage_from_settings(config, cfg) == MortgageRun(config, cfg).out

-----------------------------------------------------------------------------
(* Inputs: configurations (config_dataclasses.py) drawn from bounded sets *)

\* all sequences over S of length at most n
RECURSIVE SeqsUpTo(_, _)
SeqsUpTo(S, n) ==
    IF n = 0 THEN {<<>>}
    ELSE LET shorter == SeqsUpTo(S, n - 1)
         IN  shorter \cup {Append(q, e) : q \in {t \in shorter : Len(t) = n - 1}, e \in S}

\* brackets of the resolver's inputs: the thresholds and rates of a three-tier
\* schedule, in every order and repetition
ResolverBrackets ==
    {Bracket(t, r) : t \in {I(200), I(50), Zero}, r \in {Q(3, 2), I(1), Q(1, 2)}}
ResolverValues == {I(-10), Zero, I(50), Q(401, 8), I(100), I(200), I(250)}

\* brackets of a configuration: two well-formed ones, one with a negative
\* threshold and one with a negative rate
ConfigBrackets ==
    {Bracket(I(200), Q(1, 2)), Bracket(I(100), I(1)),
     Bracket(I(-1), Q(1, 2)), Bracket(I(200), I(-1))}

BaseBrackets == <<Bracket(I(200), Q(3, 2)), Bracket(Zero, Q(1, 2))>>

\* the k-th property of the base configuration; every second one is priced
\* off the cent
BaseProperty(k) ==
    [value |-> IF k % 2 = 1 THEN I(300) ELSE Q(2001, 8),
     condo_fees |-> I(3),
     area_sqft |-> I(100),
     bedrooms |-> 3,
     bathrooms |-> IF k % 2 = 1 THEN 2 ELSE 0,
     year_built |-> 1990,
     interest_rate |-> I(4),
     years_of_loan |-> 30,
     property_tax |-> Q(1, 2),
     school_tax |-> Q(1, 10),
     yearly_home_insurance |-> I(12),
     notary_cost |-> I(1),
     inspection_cost |-> I(1),
     land_transfer_tax_brackets |-> BaseBrackets,
     description |-> IF k % 2 = 1 THEN "condo" ELSE None,
     address |-> None,
     link |-> None]

\* the valid base configuration with n properties (the output paths and the
\* chart settings of PropertiesListConfig play no part in the engine)
BaseConfig(n) ==
    [properties |-> [k \in 1..n |-> BaseProperty(k)],
     loan_parameters |-> [down_payment |-> I(60),
                          interest_rate |-> I(5),
                          years_of_loan |-> 1,
                          monthly_salary |-> I(60),
                          monthly_debt_payment |-> I(5)],
     necessary_expenses |-> [notary_cost |-> I(15), inspection_cost |-> I(5)]]

BaseConfigs == {BaseConfig(n) : n \in 0..MaxProps}

\* other values of each field: valid ones, boundary ones and invalid ones
LoanAlternatives ==
    [down_payment |-> {I(-1), Zero, Q(481, 8), I(300)},
     interest_rate |-> {I(-1), Zero, I(100), I(101)},
     years_of_loan |-> (0..MaxYears) \ {1},
     monthly_salary |-> {Zero, I(-1)},
     monthly_debt_payment |-> {I(-1), Zero}]

ExpenseAlternatives ==
    [notary_cost |-> {I(-1), Zero}, inspection_cost |-> {I(-1)}]

PropertyAlternatives ==
    [value |-> {Zero, I(60), I(200)},
     property_tax |-> {I(-1), Zero},
     school_tax |-> {I(-1)},
     condo_fees |-> {I(-1), Zero},
     yearly_home_insurance |-> {I(-1)},
     area_sqft |-> {Zero}]

\* the configurations that differ from c in one scalar field
ScalarDeviations(c) ==
    UNION {{[c EXCEPT !.loan_parameters[f] = v] : v \in LoanAlternatives[f]}
           : f \in DOMAIN LoanAlternatives}
    \cup
    UNION {{[c EXCEPT !.necessary_expenses[f] = v] : v \in ExpenseAlternatives[f]}
           : f \in DOMAIN ExpenseAlternatives}
    \cup
    UNION {UNION {{[c EXCEPT !.properties[k][f] = v] : v \in PropertyAlternatives[f]}
                  : f \in DOMAIN PropertyAlternatives}
           : k \in 1..Len(c.properties)}

\* the configurations that differ from c in the bracket list of one property,
\* a list of at most n brackets
BracketDeviations(c, n) ==
    {[c EXCEPT !.properties[k].land_transfer_tax_brackets = b]
     : k \in 1..Len(c.properties), b \in SeqsUpTo(ConfigBrackets, n)}

OneDeviation == UNION {ScalarDeviations(c) : c \in BaseConfigs}
TwoDeviations == UNION {ScalarDeviations(c) : c \in OneDeviation}

\* inputs of the validator
ValidatorConfigs ==
    BaseConfigs \cup OneDeviation \cup TwoDeviations
    \cup UNION {BracketDeviations(c, MaxBrackets)
                : c \in BaseConfigs \cup ScalarDeviations(BaseConfig(1))}

\* the end-to-end scenario: one property of 300000 financed at 5% over 25
\* years, for a salary of 6000
ScenarioConfig ==
    [properties |->
        <<[BaseProperty(1) EXCEPT
              !.value = I(300000),
              !.condo_fees = I(300),
              !.area_sqft = I(1000),
              !.property_tax = Q(1, 2),
              !.school_tax = Q(1, 10),
              !.yearly_home_insurance = I(1200),
              !.land_transfer_tax_brackets =
                  <<Bracket(I(200000), Q(3, 2)), Bracket(Zero, Q(1, 2))>>]>>,
     loan_parameters |-> [down_payment |-> I(60000),
                          interest_rate |-> I(5),
                          years_of_loan |-> 25,
                          monthly_salary |-> I(6000),
                          monthly_debt_payment |-> I(500)],
     necessary_expenses |-> [notary_cost |-> I(1500), inspection_cost |-> I(500)]]

\* inputs of the calculator and of the batch run
BatchConfigs ==
    {ScenarioConfig} \cup
    BaseConfigs \cup OneDeviation
    \cup UNION {ScalarDeviations(c) : c \in ScalarDeviations(BaseConfig(1))}
    \cup UNION {BracketDeviations(c, MaxBrackets - 1) : c \in BaseConfigs}

-----------------------------------------------------------------------------
(* State machine *)

NotRun == [exc |-> "not run", val |-> None]
NoCall == [fn |-> "none", args |-> <<>>, out |-> NotRun]
NoMortgage == [prop |-> 0, self |-> NotRun, out |-> NotRun]

Idle ==
    /\ fnCall = NoCall
    /\ validation = NotRun
    /\ mortgage = NoMortgage
    /\ pc = "start"
    /\ idx = 0
    /\ results = <<>>
    /\ calcDone = {}
    /\ error = "none"
    /\ csvWritten = FALSE
    /\ reportWritten = FALSE

(* Direct calls of the pure functions of the library *)

CallResolve ==
    /\ fnCall = NoCall
    /\ \E value \in ResolverValues, brackets \in SeqsUpTo(ResolverBrackets, MaxBrackets) :
          fnCall' = [fn |-> "land_transfer_tax_rate_decimal",
                     args |-> <<value, brackets>>,
                     out |-> land_transfer_tax_rate_decimal(value, brackets)]
    /\ UNCHANGED <<conf, validation, mortgage, pc, idx, results, calcDone, error,
                   csvWritten, reportWritten>>

PaymentRates == {Zero, Q(1, 20), I(1), Q(-1, 100)}
PaymentLoans == {Zero, I(240), Q(24012, 100), I(-60), I(1)}

CallPayment ==
    /\ fnCall = NoCall
    /\ \E yearly_rate_decimal \in PaymentRates, years \in 0..MaxYears,
          loan_amount \in PaymentLoans :
          fnCall' = [fn |-> "calculate_mortgage_payment",
                     args |-> <<yearly_rate_decimal, years, loan_amount>>,
                     out |-> calculate_mortgage_payment(yearly_rate_decimal, years,
                                                        loan_amount)]
    /\ UNCHANGED <<conf, validation, mortgage, pc, idx, results, calcDone, error,
                   csvWritten, reportWritten>>

InitFn == conf = BaseConfig(0) /\ Idle
NextFn == CallResolve \/ CallPayment
SpecFn == InitFn /\ [][NextFn]_vars

(* The validator, called on a configuration *)

\* a validator that replaces a negative down payment by 0
ValidateClampingDownPayment ==
    /\ validation = NotRun
    /\ pc = "start"
    /\ mortgage = NoMortgage
    /\ validation' = validate_loan_config_and_properties(conf)
    /\ conf' = [conf EXCEPT !.loan_parameters.down_payment =
                                IF QLt(@, Zero) THEN Zero ELSE @]
    /\ UNCHANGED <<fnCall, mortgage, pc, idx, results, calcDone, error,
                   csvWritten, reportWritten>>

\* batch_calculate never calls the validator: a caller runs it on the
\* configuration before calculating or instead of calculating
Validate ==
    /\ validation = NotRun
    /\ pc = "start"
    /\ mortgage = NoMortgage
    /\ validation' = validate_loan_config_and_properties(conf)
    /\ UNCHANGED <<conf, fnCall, mortgage, pc, idx, results, calcDone, error,
                   csvWritten, reportWritten>>

InitValidate == conf \in ValidatorConfigs /\ Idle
NextValidate == Validate
SpecValidate == InitValidate /\ [][NextValidate]_vars

(* The calculator, called on one property of a configuration *)

\* the call of calculate_mortgage_payment that line 205 makes, with the
\* arguments of lines 183 and 204; no call when lines 191-192 raised
PaymentCall(property_details, cfg) ==
    LET lp == cfg.loan_parameters
        interest_rate_decimal == percent_to_decimal(lp.interest_rate)
        rate == land_transfer_tax_rate_decimal(property_details.value,
                    property_details.land_transfer_tax_brackets)
        loan_amount == round(QSub(property_details.value, lp.down_payment), 2)
    IN  IF rate.exc # "none" THEN NoCall
        ELSE TheOne({[fn |-> "calculate_mortgage_payment",
                      args |-> <<interest_rate_decimal, lp.years_of_loan, loan_amount>>,
                      out |-> out]
                     : out \in {calculate_mortgage_payment(interest_rate_decimal,
                                     lp.years_of_loan, loan_amount)}})

\* calculate_mortgage_from_settings(conf.properties[k], conf) for one k
Calculate ==
    /\ pc = "start"
    /\ mortgage = NoMortgage
    /\ validation.exc # "ValidationError"   \* not after a failed validation
    /\ \E k \in 1..Len(conf.properties) :
          \E run \in {MortgageRun(conf.properties[k], conf)},
             call \in {PaymentCall(conf.properties[k], conf)} :
             /\ mortgage' = [prop |-> k, self |-> run.self, out |-> run.out]
             /\ fnCall' = call
    /\ UNCHANGED <<conf, validation, pc, idx, results, calcDone, error,
                   csvWritten, reportWritten>>

(* mortgagecalculator_batch.py: batch_calculate *)

\* `x.to_result()` for the value x that calculate_mortgage_from_settings
\* returned: a MortgageResult is a TypedDict, a plain dict when the program
\* runs, and a dict has no attribute to_result
MortgageResult_to_result(x) == Raise("AttributeError")

\* lines 20-33: the output paths, the banner and `results = []`
BatchStart ==
    /\ pc = "start"
    /\ mortgage = NoMortgage      \* a run is library calls or one batch
    /\ validation = NotRun
    /\ pc' = "loop"
    /\ idx' = 1
    /\ results' = <<>>
    /\ UNCHANGED <<conf, fnCall, validation, mortgage, calcDone, error,
                   csvWritten, reportWritten>>

\* lines 34-40: one iteration of the loop over cfg.properties.  The except
\* clause logs and re-raises a ValidationError; every other exception leaves
\* the function as well.
BatchProperty ==
    /\ pc = "loop"
    /\ idx <= Len(conf.properties)
    /\ \E calculated \in {calculate_mortgage_from_settings(conf.properties[idx], conf)} :
           IF calculated.exc # "none"
           THEN /\ pc' = "failed"
                /\ error' = calculated.exc
                /\ UNCHANGED <<idx, results, calcDone>>
           ELSE LET flattened == MortgageResult_to_result(calculated.val)
                IN  IF flattened.exc # "none"
                    THEN /\ pc' = "failed"
                         /\ error' = flattened.exc
                         /\ calcDone' = calcDone \cup {idx}
                         /\ UNCHANGED <<idx, results>>
                    ELSE /\ results' = Append(results, flattened.val)
                         /\ calcDone' = calcDone \cup {idx}
                         /\ idx' = idx + 1
                         /\ UNCHANGED <<pc, error>>
    /\ UNCHANGED <<conf, fnCall, validation, mortgage, csvWritten, reportWritten>>

\* lines 42-48: after the loop the data file is written, or the write fails
BatchWriteCsv ==
    /\ pc = "loop"
    /\ idx > Len(conf.properties)
    /\ \E written \in BOOLEAN :
          IF written
          THEN csvWritten' = TRUE /\ pc' = "report" /\ UNCHANGED error
          ELSE error' = "OSError" /\ pc' = "failed" /\ UNCHANGED csvWritten
    /\ UNCHANGED <<conf, fnCall, validation, mortgage, idx, results, calcDone,
                   reportWritten>>

\* lines 50-58 and reportinglib.generate_markdown_report: an empty result
\* list is a ValueError; otherwise the report is written, or writing it fails
BatchReport ==
    /\ pc = "report"
    /\ IF results = <<>>
       THEN error' = "ValueError" /\ pc' = "failed" /\ UNCHANGED reportWritten
       ELSE \E written \in BOOLEAN :
               IF written
               THEN reportWritten' = TRUE /\ pc' = "done" /\ UNCHANGED error
               ELSE error' = "ReportGenerationError" /\ pc' = "failed"
                    /\ UNCHANGED reportWritten
    /\ UNCHANGED <<conf, fnCall, validation, mortgage, idx, results, calcDone,
                   csvWritten>>

Init == conf \in BatchConfigs /\ Idle
Next == Validate \/ Calculate \/ BatchStart \/ BatchProperty \/ BatchWriteCsv \/ BatchReport
Spec == Init /\ [][Next]_vars

-----------------------------------------------------------------------------
(* Properties of the rate resolver, over the calls of SpecFn *)

Resolved == fnCall.fn = "land_transfer_tax_rate_decimal"
ResolveValue == fnCall.args[1]
ResolveBrackets == fnCall.args[2]

\* positions of the brackets whose threshold is strictly below the value
Exceeded(value, brackets) ==
    {i \in 1..Len(brackets) : QLt(brackets[i].threshold, value)}

Least(S) == CHOOSE i \in S : \A j \in S : i <= j

\* C1: for a non-empty bracket list, when some bracket's threshold is
\* strictly below the value, the resolver returns rate / 100 of the first
\* such bracket in list order; a bracket whose threshold equals the value is
\* passed over.
C1_FirstExceededBracket ==
    (Resolved /\ Exceeded(ResolveValue, ResolveBrackets) # {}) =>
        LET first == Least(Exceeded(ResolveValue, ResolveBrackets))
        IN  fnCall.out = Return(QDiv(ResolveBrackets[first].rate, I(100)))

\* a call where the first bracket's threshold equals the value, a later
\* bracket is the one matched, and its rate differs from the first one's
C1_Witness ==
    /\ Resolved
    /\ Len(ResolveBrackets) >= 2
    /\ ResolveBrackets[1].threshold = ResolveValue
    /\ Exceeded(ResolveValue, ResolveBrackets) # {}
    /\ ResolveBrackets[Least(Exceeded(ResolveValue, ResolveBrackets))].rate
           # ResolveBrackets[1].rate
    /\ fnCall.out.exc = "none"

\* C2: for a non-empty bracket list, when the value exceeds no threshold
\* (value <= every threshold), the resolver returns rate / 100 of the last
\* bracket of the list and raises nothing.
C2_FallbackLastBracket ==
    (Resolved /\ ResolveBrackets # <<>>
              /\ \A i \in 1..Len(ResolveBrackets) :
                    QLe(ResolveValue, ResolveBrackets[i].threshold)) =>
        fnCall.out = Return(QDiv(ResolveBrackets[Len(ResolveBrackets)].rate, I(100)))

\* a call with several brackets, none exceeded, the last rate unlike the first
C2_Witness ==
    /\ Resolved
    /\ Len(ResolveBrackets) >= 2
    /\ Exceeded(ResolveValue, ResolveBrackets) = {}
    /\ ResolveBrackets[Len(ResolveBrackets)].rate # ResolveBrackets[1].rate
    /\ fnCall.out.exc = "none"

\* C3: the resolver raises ValueError if and only if the bracket list is
\* empty; for every non-empty list and every value (negative values and
\* unordered lists included) it returns a rate.
C3_ValueErrorIffEmpty ==
    Resolved =>
        /\ (fnCall.out.exc = "ValueError") <=> (ResolveBrackets = <<>>)
        /\ ResolveBrackets # <<>> =>
              /\ fnCall.out.exc = "none"
              /\ \E i \in 1..Len(ResolveBrackets) :
                    fnCall.out.val = QDiv(ResolveBrackets[i].rate, I(100))

\* a call with an empty list, which raised
C3_Witness ==
    /\ Resolved
    /\ ResolveBrackets = <<>>
    /\ fnCall.out.exc = "ValueError"

-----------------------------------------------------------------------------
(* Properties of the validator, over the runs of SpecValidate *)

Validated == validation # NotRun

\* the messages of the error the validator raised, none if it returned
ValidationMessages ==
    IF validation.exc = "ValidationError" THEN validation.val.messages ELSE <<>>

\* the violated checks of a configuration, each named by the text of its
\* message and the place it is about: <<text>> for a check of the loan
\* parameters or the expenses, <<text, k>> for one of property k,
\* <<text, k, i>> for one of bracket i (counted from 0) of property k
ViolatedLoanChecks(c) ==
    LET lp == c.loan_parameters
        ne == c.necessary_expenses
    IN  {ch \in {<<"Interest rate must be between 0 and 100%">>,
                 <<"Loan term must be positive">>,
                 <<"Down payment cannot be negative">>,
                 <<"Monthly salary must be positive">>,
                 <<"Monthly debt payment cannot be negative">>,
                 <<"Notary cost cannot be negative">>,
                 <<"Inspection cost cannot be negative">>} :
            \/ ch[1] = "Interest rate must be between 0 and 100%"
                  /\ ~(QLe(Zero, lp.interest_rate) /\ QLe(lp.interest_rate, I(100)))
            \/ ch[1] = "Loan term must be positive" /\ ~(lp.years_of_loan > 0)
            \/ ch[1] = "Down payment cannot be negative" /\ ~QGe(lp.down_payment, Zero)
            \/ ch[1] = "Monthly salary must be positive" /\ ~QGt(lp.monthly_salary, Zero)
            \/ ch[1] = "Monthly debt payment cannot be negative"
                  /\ ~QGe(lp.monthly_debt_payment, Zero)
            \/ ch[1] = "Notary cost cannot be negative" /\ ~QGe(ne.notary_cost, Zero)
            \/ ch[1] = "Inspection cost cannot be negative"
                  /\ ~QGe(ne.inspection_cost, Zero)}

ViolatedPropertyChecks(c) ==
    UNION {LET pr == c.properties[k]
           IN  {ch \in {<<"Property value must be positive", k>>,
                        <<"Property tax rate cannot be negative", k>>,
                        <<"School tax rate cannot be negative", k>>,
                        <<"Condo fees cannot be negative", k>>,
                        <<"Home insurance cannot be negative", k>>,
                        <<"Area (sqft) must be positive", k>>,
                        <<"Land transfer tax brackets must be configured", k>>,
                        <<"Down payment cannot be >= property value", k>>} :
                   \/ ch[1] = "Property value must be positive" /\ ~QGt(pr.value, Zero)
                   \/ ch[1] = "Property tax rate cannot be negative"
                         /\ ~QGe(pr.property_tax, Zero)
                   \/ ch[1] = "School tax rate cannot be negative"
                         /\ ~QGe(pr.school_tax, Zero)
                   \/ ch[1] = "Condo fees cannot be negative" /\ ~QGe(pr.condo_fees, Zero)
                   \/ ch[1] = "Home insurance cannot be negative"
                         /\ ~QGe(pr.yearly_home_insurance, Zero)
                   \/ ch[1] = "Area (sqft) must be positive" /\ ~QGt(pr.area_sqft, Zero)
                   \/ ch[1] = "Land transfer tax brackets must be configured"
                         /\ Len(pr.land_transfer_tax_brackets) = 0
                   \/ ch[1] = "Down payment cannot be >= property value"
                         /\ ~QLt(c.loan_parameters.down_payment, pr.value)}
           : k \in 1..Len(c.properties)}

ViolatedBracketChecks(c) ==
    UNION {LET b == c.properties[k].land_transfer_tax_brackets
           IN  {<<"Land transfer tax bracket rate cannot be negative", k, i - 1>>
                    : i \in {j \in 1..Len(b) : ~QGe(b[j].rate, Zero)}}
               \cup
               {<<"Land transfer tax bracket threshold cannot be negative", k, i - 1>>
                    : i \in {j \in 1..Len(b) : ~QGe(b[j].threshold, Zero)}}
               \cup
               {<<"Land transfer tax brackets must be ordered from highest threshold to lowest",
                  k, i - 1>>
                    : i \in {j \in 2..Len(b) : ~QGt(b[j - 1].threshold, b[j].threshold)}}
           : k \in 1..Len(c.properties)}

ViolatedChecks(c) ==
    ViolatedLoanChecks(c) \cup ViolatedPropertyChecks(c) \cup ViolatedBracketChecks(c)

\* how many of the messages have the text t
MessagesWithText(msgs, t) == Cardinality({i \in 1..Len(msgs) : msgs[i].text = t})

\* the only violations are negative condo fees and down payment >= value,
\* both on property k
OnlyCondoFeesAndDownPayment(c, k) ==
    ViolatedChecks(c) = {<<"Condo fees cannot be negative", k>>,
                         <<"Down payment cannot be >= property value", k>>}

\* C4: the validator evaluates every check; when any is violated it raises
\* one ValidationError whose message list has one message per violated
\* check (of the loan parameters, the expenses and every property), text by
\* text; a configuration whose only violations are negative condo fees and
\* down payment >= value on one property gives exactly those two messages.
C4_OneMessagePerViolation ==
    (Validated /\ ViolatedChecks(conf) # {}) =>
        /\ validation.exc = "ValidationError"
        /\ Len(ValidationMessages) = Cardinality(ViolatedChecks(conf))
        /\ \A i \in 1..Len(ValidationMessages) :
              MessagesWithText(ValidationMessages, ValidationMessages[i].text)
                  = Cardinality({ch \in ViolatedChecks(conf) :
                                    ch[1] = ValidationMessages[i].text})
        /\ \A k \in 1..Len(conf.properties) :
              OnlyCondoFeesAndDownPayment(conf, k) =>
                  ValidationMessages =
                      <<Msg("Condo fees cannot be negative",
                            <<conf.properties[k].condo_fees>>),
                        Msg("Down payment cannot be >= property value",
                            <<conf.loan_parameters.down_payment,
                              conf.properties[k].value>>)>>

\* the validator ran on a configuration whose only violations are negative
\* condo fees and down payment >= value on one property, and raised
C4_Witness ==
    /\ Validated
    /\ \E k \in 1..Len(conf.properties) : OnlyCondoFeesAndDownPayment(conf, k)
    /\ validation.exc = "ValidationError"
    /\ Len(ValidationMessages) = 2

BracketsAccepted(b) ==
    /\ Len(b) > 0
    /\ \A i \in 1..Len(b) : QGe(b[i].rate, Zero) /\ QGe(b[i].threshold, Zero)
    /\ \A i \in 1..(Len(b) - 1) : QGt(b[i].threshold, b[i + 1].threshold)

\* the conditions under which a configuration is valid
ConfigAccepted(c) ==
    /\ QGe(c.loan_parameters.interest_rate, Zero)
    /\ QLe(c.loan_parameters.interest_rate, I(100))
    /\ c.loan_parameters.years_of_loan > 0
    /\ QGe(c.loan_parameters.down_payment, Zero)
    /\ QGt(c.loan_parameters.monthly_salary, Zero)
    /\ QGe(c.loan_parameters.monthly_debt_payment, Zero)
    /\ QGe(c.necessary_expenses.notary_cost, Zero)
    /\ QGe(c.necessary_expenses.inspection_cost, Zero)
    /\ \A k \in 1..Len(c.properties) :
          LET pr == c.properties[k]
          IN  /\ QGt(pr.value, Zero)
              /\ QGe(pr.property_tax, Zero)
              /\ QGe(pr.school_tax, Zero)
              /\ QGe(pr.condo_fees, Zero)
              /\ QGe(pr.yearly_home_insurance, Zero)
              /\ QGt(pr.area_sqft, Zero)
              /\ BracketsAccepted(pr.land_transfer_tax_brackets)
              /\ QLt(c.loan_parameters.down_payment, pr.value)

\* C5: the validator returns without raising if and only if the interest
\* rate is in [0, 100], the loan term > 0, down payment, debt payment, notary
\* and inspection cost >= 0, the salary > 0, and every property has value > 0,
\* tax rates, condo fees and insurance >= 0, area > 0, a non-empty bracket
\* list with rates and thresholds >= 0 and strictly descending thresholds,
\* and a value above the down payment.
C5_AcceptsIffAllConditions ==
    Validated =>
        /\ (validation = Return(None)) <=> ConfigAccepted(conf)
        /\ (validation.exc = "ValidationError") <=> ~ConfigAccepted(conf)

\* the validator accepted a configuration with properties whose values sit on
\* the limits the checks allow: rate 100 or 0, down payment 0
C5_Witness ==
    /\ Validated
    /\ validation = Return(None)
    /\ Len(conf.properties) >= 1
    /\ \/ conf.loan_parameters.interest_rate = I(100)
       \/ conf.loan_parameters.interest_rate = Zero
       \/ conf.loan_parameters.down_payment = Zero

\* the adjacent pairs (i-1, i), counted from 0, of the bracket lists of c whose
\* thresholds do not strictly descend, as <<property, i-1, threshold[i-1], i,
\* threshold[i]>>
UnorderedPairs(c) ==
    UNION {LET b == c.properties[k].land_transfer_tax_brackets
           IN  {<<k, i - 2, b[i - 1].threshold, i - 1, b[i].threshold>>
                   : i \in {j \in 2..Len(b) : QLe(b[j - 1].threshold, b[j].threshold)}}
           : k \in 1..Len(c.properties)}

OrderingText == "Land transfer tax brackets must be ordered from highest threshold to lowest"

\* C6: for every property and every adjacent pair of its brackets with
\* threshold[i-1] <= threshold[i] (equal ones included) there is one ordering
\* error naming i-1, i and both thresholds, and there is none for a pair
\* that strictly descends; brackets [(100,1.0),(200,0.5)] give an error
\* naming indices 0 and 1.
C6_OrderingErrorPerPair ==
    Validated =>
        /\ \A a \in {<<u[2], u[3], u[4], u[5]>> : u \in UnorderedPairs(conf)} :
              Cardinality({i \in 1..Len(ValidationMessages) :
                              ValidationMessages[i] = Msg(OrderingText, a)})
                  = Cardinality({u \in UnorderedPairs(conf) :
                                    <<u[2], u[3], u[4], u[5]>> = a})
        /\ MessagesWithText(ValidationMessages, OrderingText)
              = Cardinality(UnorderedPairs(conf))
        /\ (\E k \in 1..Len(conf.properties) :
               conf.properties[k].land_transfer_tax_brackets
                   = <<Bracket(I(100), I(1)), Bracket(I(200), Q(1, 2))>>)
           => \E i \in 1..Len(ValidationMessages) :
                 ValidationMessages[i] = Msg(OrderingText, <<0, I(100), 1, I(200)>>)

\* the validator ran on a property whose brackets have a pair of equal
\* thresholds and a pair that strictly descends, and reported the first only
C6_Witness ==
    /\ Validated
    /\ \E k \in 1..Len(conf.properties) :
          LET b == conf.properties[k].land_transfer_tax_brackets
          IN  /\ Len(b) >= 3
              /\ \E i \in 2..Len(b) : b[i - 1].threshold = b[i].threshold
              /\ \E i \in 2..Len(b) : QGt(b[i - 1].threshold, b[i].threshold)
    /\ MessagesWithText(ValidationMessages, OrderingText) = 1

-----------------------------------------------------------------------------
(* Properties of the batch run, over the runs of Spec *)

BatchRunning == pc # "start"

\* some property of the configuration violates a validation rule
HasInvalidProperty(c) ==
    ViolatedPropertyChecks(c) \cup ViolatedBracketChecks(c) # {}

\* C7: in a batch run the validator runs over the whole configuration before
\* the calculator runs on any property: for a batch with an invalid property
\* the run fails with the validation error, and no property's result is
\* calculated, collected or written.
C7_ValidatorBeforeCalculator ==
    (BatchRunning /\ HasInvalidProperty(conf)) =>
        /\ calcDone = {}
        /\ results = <<>>
        /\ ~csvWritten /\ ~reportWritten
        /\ pc # "done"
        /\ pc = "failed" => error = "ValidationError"

\* C8: for a valid configuration with n >= 1 properties the batch run
\* completes: when the property loop is over there are exactly n collected
\* records, the i-th being the flattened result of property i, and the run
\* never stops with an error other than a validation error.
C8_ValidBatchCompletes ==
    (BatchRunning /\ ConfigAccepted(conf) /\ Len(conf.properties) >= 1) =>
        /\ pc = "failed" => error = "ValidationError"
        /\ Len(results) <= Len(conf.properties)
        /\ pc \in {"report", "done"} => Len(results) = Len(conf.properties)
        /\ \A i \in 1..Len(results) :
              Return(results[i]) = calculate_mortgage_from_settings(conf.properties[i], conf)

-----------------------------------------------------------------------------
(* Properties of the calculator, over the calls of Spec *)

Calculated == mortgage.prop # 0
CalculatedProperty == conf.properties[mortgage.prop]

QAbs(x) == IF QLt(x, Zero) THEN QSub(Zero, x) ELSE x
WholeCents(x) == (x.n * 100) % x.d = 0

\* y is x rounded to a whole number of cents
RoundedToCents(y, x) ==
    /\ WholeCents(y)
    /\ QLe(QAbs(QSub(y, x)), Q(1, 200))
    /\ WholeCents(x) => y = x

\* C9: for a valid configuration and every property, the calculated
\* loan_amount is the property value minus the shared down payment rounded
\* to 2 decimals, and in the flattened record Loan_Amount is Property_Value
\* minus Down_Payment, to the same rounding.
C9_LoanAmount ==
    (Calculated /\ ConfigAccepted(conf)) =>
        /\ mortgage.self.exc = "none"
        /\ mortgage.out.exc = "none"
        /\ RoundedToCents(mortgage.self.val.loan_amount,
                          QSub(CalculatedProperty.value,
                               conf.loan_parameters.down_payment))
        /\ mortgage.out.val.Property_Value = CalculatedProperty.value
        /\ mortgage.out.val.Down_Payment = conf.loan_parameters.down_payment
        /\ RoundedToCents(mortgage.out.val.Loan_Amount,
                          QSub(mortgage.out.val.Property_Value,
                               mortgage.out.val.Down_Payment))

\* the calculator ran on a valid property whose value less the down payment
\* is not a whole number of cents, so that the loan amount was rounded
C9_Witness ==
    /\ Calculated
    /\ ConfigAccepted(conf)
    /\ mortgage.out.exc = "none"
    /\ ~WholeCents(QSub(CalculatedProperty.value, conf.loan_parameters.down_payment))
    /\ QGt(mortgage.out.val.Loan_Amount, Zero)

\* the calculator returned for a loan at zero interest over years > 0
ZeroInterestRun ==
    /\ Calculated
    /\ conf.loan_parameters.interest_rate = Zero
    /\ conf.loan_parameters.years_of_loan > 0
    /\ fnCall.fn = "calculate_mortgage_payment"

\* C10: at a yearly rate of 0, calculate_mortgage_payment returns
\* loan_amount / (years * 12) for every years > 0 and every loan amount, and
\* the calculator then reports monthly interest 0, yearly interest 0 and
\* total interest = payment * months - loan_amount.
C10_ZeroInterest ==
    ZeroInterestRun =>
        LET months == conf.loan_parameters.years_of_loan * 12
            loan_amount == fnCall.args[3]
            self == mortgage.self.val
        IN  /\ fnCall.args[1] = Zero
            /\ fnCall.args[2] = conf.loan_parameters.years_of_loan
            /\ fnCall.out.exc = "none"
            /\ BigRatEq(fnCall.out.val, BigRatOfQ(QDiv(loan_amount, I(months))))
            /\ mortgage.self.exc = "none"
            /\ self.loan_amount = loan_amount
            /\ RoundedToCents(self.mortgage_payment, QDiv(loan_amount, I(months)))
            /\ self.monthly_interest = Zero
            /\ self.yearly_interest = Zero
            /\ self.total_interest
                  = QSub(QMul(self.mortgage_payment, I(months)), loan_amount)
            /\ mortgage.out.val.Monthly_Interest = Zero
            /\ mortgage.out.val.Yearly_Interest = Zero
            /\ mortgage.out.val.Total_Interest = self.total_interest

\* a zero-interest run whose payment was rounded, so that the payments do not
\* add up to the loan
C10_Witness ==
    /\ ZeroInterestRun
    /\ mortgage.self.exc = "none"
    /\ mortgage.self.val.total_interest # Zero

-----------------------------------------------------------------------------
(* Properties of the calculated amounts, over the calls of Spec *)

\* the calculator constructed an object for a property, without raising
Constructed == Calculated /\ mortgage.self.exc = "none"
Months == conf.loan_parameters.years_of_loan * MONTHS_IN_YEAR

\* C11: for every calculated mortgage, total_interest is the reported
\* (rounded) mortgage_payment times years_of_loan * 12, less loan_amount, so
\* that payment * months equals loan_amount + total_interest to 2-decimal
\* rounding.
C11_AnnuityRoundTrip ==
    Constructed =>
        LET self == mortgage.self.val
            total_payments == QMul(self.mortgage_payment, I(Months))
        IN  /\ RoundedToCents(self.total_interest,
                              QSub(total_payments, self.loan_amount))
            /\ QLe(QAbs(QSub(total_payments,
                             QAdd(self.loan_amount, self.total_interest))),
                   Q(1, 200))
            /\ mortgage.out.val.Total_Interest = self.total_interest
            /\ mortgage.out.val.Monthly_Mortgage_Payment = self.mortgage_payment

\* an interest-bearing loan over more than one year was calculated, and its
\* payments exceed the loan
C11_Witness ==
    /\ Constructed
    /\ QGt(conf.loan_parameters.interest_rate, Zero)
    /\ conf.loan_parameters.years_of_loan > 1
    /\ QGt(mortgage.self.val.loan_amount, Zero)
    /\ QGt(mortgage.self.val.total_interest, Zero)

\* C12: for every calculated mortgage with monthly salary > 0, the GDS ratio
\* is total monthly costs / monthly salary * 100 and the TDS ratio is (total
\* monthly costs + monthly debt payment) / monthly salary * 100, each rounded
\* to 2 decimals; with monthly salary <= 0 both ratios are 0.
C12_DebtServiceRatios ==
    Constructed =>
        LET self == mortgage.self.val
            lp == conf.loan_parameters
        IN  /\ QGt(lp.monthly_salary, Zero) =>
                  /\ RoundedToCents(self.gds_ratio,
                         QMul(QDiv(self.total_monthly_costs, lp.monthly_salary),
                              I(100)))
                  /\ RoundedToCents(self.tds_ratio,
                         QMul(QDiv(QAdd(self.total_monthly_costs,
                                        lp.monthly_debt_payment),
                                   lp.monthly_salary), I(100)))
            /\ QLe(lp.monthly_salary, Zero) =>
                  self.gds_ratio = Zero /\ self.tds_ratio = Zero
            /\ mortgage.out.val.GDS_Ratio = self.gds_ratio
            /\ mortgage.out.val.TDS_Ratio = self.tds_ratio

\* a mortgage was calculated for a positive salary and a positive debt
\* payment, and its GDS ratio had to be rounded
C12_Witness ==
    /\ Constructed
    /\ QGt(conf.loan_parameters.monthly_salary, Zero)
    /\ QGt(conf.loan_parameters.monthly_debt_payment, Zero)
    /\ ~WholeCents(QMul(QDiv(mortgage.self.val.total_monthly_costs,
                             conf.loan_parameters.monthly_salary), I(100)))
    /\ QGt(mortgage.self.val.tds_ratio, mortgage.self.val.gds_ratio)

\* C13: the calculator is total: constructing a CalculatedMortgage returns a
\* result and raises nothing for every input, also outside what the validator
\* guarantees; area = 0 gives price per sqft 0 and salary = 0 gives GDS = TDS
\* = 0.  (The empty bracket list, which the resolver rejects, is set aside.)
C13_CalculatorTotal ==
    (Calculated /\ CalculatedProperty.land_transfer_tax_brackets # <<>>) =>
        /\ mortgage.self.exc = "none"
        /\ mortgage.out.exc = "none"
        /\ CalculatedProperty.area_sqft = Zero =>
              mortgage.self.val.price_per_sqft = Zero
        /\ conf.loan_parameters.monthly_salary = Zero =>
              /\ mortgage.self.val.gds_ratio = Zero
              /\ mortgage.self.val.tds_ratio = Zero

\* the end-to-end scenario has been calculated
ScenarioRun == Constructed /\ conf = ScenarioConfig

\* the intermediate values of the scenario
ScenarioIntermediates ==
    /\ mortgage.self.val.loan_amount = I(240000)
    /\ mortgage.out.val.Land_Transfer_Tax_Rate = Q(3, 2)
    /\ mortgage.self.val.land_transfer_tax = I(4500)
    /\ mortgage.self.val.monthly_property_tax = I(125)
    /\ mortgage.self.val.monthly_school_tax = I(25)
    /\ mortgage.self.val.monthly_home_insurance = I(100)

\* C14 as stated: the scenario yields a monthly payment of 1400.61, total
\* monthly costs of 1950.61 and, for a salary of 6000, a GDS of 32.51
C14_ScenarioAsStated ==
    ScenarioRun =>
        /\ ScenarioIntermediates
        /\ mortgage.self.val.mortgage_payment = Q(140061, 100)
        /\ mortgage.self.val.total_monthly_costs = Q(195061, 100)
        /\ mortgage.self.val.gds_ratio = Q(3251, 100)

\* C14: the end-to-end scenario (300000 with 60000 down at 5% over 25 years,
\* property tax 0.5%, school tax 0.1%, insurance 1200, condo fees 300,
\* brackets [(200000, 1.5), (0, 0.5)]) yields loan 240000, transfer tax rate
\* 1.5% and tax 4500, monthly taxes 125, 25 and insurance 100, a monthly
\* payment of 1403.02, total monthly costs of 1953.02 and, for a salary of
\* 6000, a GDS of 32.55
C14_Scenario ==
    ScenarioRun =>
        /\ ScenarioIntermediates
        /\ mortgage.self.val.mortgage_payment = Q(140302, 100)
        /\ mortgage.self.val.total_monthly_costs = Q(195302, 100)
        /\ mortgage.self.val.gds_ratio = Q(3255, 100)
        /\ mortgage.out.val.Monthly_Mortgage_Payment = Q(140302, 100)
        /\ mortgage.out.val.Total_Monthly_Costs = Q(195302, 100)

C14_Witness == ScenarioRun /\ mortgage.out.exc = "none"

\* batches that hold the calculated property and differ from the batch of
\* the run: the property alone, and the batch in reverse order with other
\* values, fees and brackets in the other properties
Alone == [conf EXCEPT !.properties = <<CalculatedProperty>>]

ReorderedAmongOthers ==
    [conf EXCEPT !.properties =
        [j \in 1..Len(conf.properties) |->
            LET k == Len(conf.properties) + 1 - j
            IN  IF k = mortgage.prop THEN conf.properties[k]
                ELSE [conf.properties[k] EXCEPT
                         !.value = QAdd(@, I(7)),
                         !.condo_fees = QAdd(@, I(1)),
                         !.land_transfer_tax_brackets = <<>>]]]

\* C15: the result of a property is a function of the property and of the
\* shared loan parameters and expenses only: calculated alone, or in a batch
\* with another order and other properties around it, the same property
\* yields the identical outcome (record or error)
C15_Independent ==
    Calculated =>
        \A batch \in {Alone, ReorderedAmongOthers} \ {conf} :
            calculate_mortgage_from_settings(CalculatedProperty, batch) = mortgage.out

\* the second of two different properties of a batch has been calculated
C15_Witness ==
    /\ Calculated
    /\ mortgage.out.exc = "none"
    /\ Len(conf.properties) = 2
    /\ mortgage.prop = 2
    /\ conf.properties[1] # conf.properties[2]

\* the rate, as a fraction, of the bracket that applies to the calculated
\* property: the first bracket whose threshold its value exceeds, else the
\* last bracket
AppliedRate ==
    LET brackets == CalculatedProperty.land_transfer_tax_brackets
        exceeded == Exceeded(CalculatedProperty.value, brackets)
        applied == IF exceeded = {} THEN Len(brackets) ELSE Least(exceeded)
    IN  QDiv(brackets[applied].rate, I(100))

\* C16: for every calculated mortgage the land transfer tax is the property
\* value times the resolved bracket rate, the total one-time costs are notary
\* cost + inspection cost + land transfer tax, and cash to close is down
\* payment + total one-time costs, each rounded to 2 decimals
C16_OneTimeCosts ==
    Constructed =>
        LET self == mortgage.self.val
            ne == conf.necessary_expenses
        IN  /\ RoundedToCents(self.land_transfer_tax,
                              QMul(CalculatedProperty.value, AppliedRate))
            /\ RoundedToCents(self.all_one_time_costs,
                              QAdd(QAdd(ne.notary_cost, ne.inspection_cost),
                                   self.land_transfer_tax))
            /\ RoundedToCents(self.cash_to_close,
                              QAdd(conf.loan_parameters.down_payment,
                                   self.all_one_time_costs))
            /\ mortgage.out.val.Land_Transfer_Tax = self.land_transfer_tax
            /\ mortgage.out.val.Total_One_Time_Costs = self.all_one_time_costs
            /\ mortgage.out.val.Cash_to_Close = self.cash_to_close

\* a mortgage whose property falls in the first of several brackets with
\* different rates, and whose tax had to be rounded
C16_Witness ==
    /\ Constructed
    /\ Len(CalculatedProperty.land_transfer_tax_brackets) > 1
    /\ Exceeded(CalculatedProperty.value,
                CalculatedProperty.land_transfer_tax_brackets) # {}
    /\ ~WholeCents(QMul(CalculatedProperty.value, AppliedRate))
    /\ mortgage.self.val.cash_to_close # Zero

\* C17: for every calculated mortgage the total monthly costs are monthly
\* mortgage payment + condo fees + monthly property tax + monthly school tax
\* + monthly home insurance, taken from the reported (rounded) components:
\* the total of the flattened record is the sum of the component fields of
\* the same record, to the cent
C17_TotalMonthlyCosts ==
    Constructed =>
        LET self == mortgage.self.val
            record == mortgage.out.val
        IN  /\ RoundedToCents(self.total_monthly_costs,
                              QAdd(QAdd(QAdd(QAdd(self.mortgage_payment,
                                                  CalculatedProperty.condo_fees),
                                             self.monthly_property_tax),
                                        self.monthly_school_tax),
                                   self.monthly_home_insurance))
            /\ RoundedToCents(record.Total_Monthly_Costs,
                              QAdd(QAdd(QAdd(QAdd(record.Monthly_Mortgage_Payment,
                                                  record.Condo_Fees),
                                             record.Monthly_Property_Tax),
                                        record.Monthly_School_Tax),
                                   record.Monthly_Home_Insurance))

\* a mortgage with a payment that had to be rounded and with condo fees,
\* taxes and insurance that are not 0
C17_Witness ==
    /\ Constructed
    /\ fnCall.out.exc = "none"
    /\ mortgage.self.val.mortgage_payment # BigRatRound(fnCall.out.val, 4)
    /\ CalculatedProperty.condo_fees # Zero
    /\ mortgage.self.val.monthly_property_tax # Zero
    /\ mortgage.self.val.monthly_school_tax # Zero
    /\ mortgage.self.val.monthly_home_insurance # Zero

\* C18: for every calculated mortgage the yearly property tax is value *
\* property tax rate / 100 and the yearly school tax is value * school tax
\* rate / 100; monthly property tax, monthly school tax and monthly home
\* insurance are the yearly amounts divided by 12; total yearly costs are
\* yearly property tax + yearly school tax + yearly home insurance; each
\* rounded to 2 decimals
C18_YearlyAndMonthlyTaxes ==
    Constructed =>
        LET self == mortgage.self.val
            record == mortgage.out.val
            property == CalculatedProperty
            twelve == I(12)
        IN  /\ RoundedToCents(self.yearly_property_tax,
                              QDiv(QMul(property.value, property.property_tax), I(100)))
            /\ RoundedToCents(self.yearly_school_tax,
                              QDiv(QMul(property.value, property.school_tax), I(100)))
            /\ RoundedToCents(self.monthly_property_tax,
                              QDiv(self.yearly_property_tax, twelve))
            /\ RoundedToCents(self.monthly_school_tax,
                              QDiv(self.yearly_school_tax, twelve))
            /\ RoundedToCents(self.monthly_home_insurance,
                              QDiv(property.yearly_home_insurance, twelve))
            /\ RoundedToCents(self.total_yearly_costs,
                              QAdd(QAdd(self.yearly_property_tax, self.yearly_school_tax),
                                   property.yearly_home_insurance))
            /\ record.Yearly_Property_Tax = self.yearly_property_tax
            /\ record.Yearly_School_Tax = self.yearly_school_tax
            /\ record.Monthly_Property_Tax = self.monthly_property_tax
            /\ record.Monthly_School_Tax = self.monthly_school_tax
            /\ record.Monthly_Home_Insurance = self.monthly_home_insurance
            /\ record.Total_Yearly_Costs = self.total_yearly_costs

\* a mortgage whose yearly and monthly taxes had to be rounded
C18_Witness ==
    /\ Constructed
    /\ ~WholeCents(QDiv(QMul(CalculatedProperty.value,
                             CalculatedProperty.property_tax), I(100)))
    /\ ~WholeCents(QDiv(mortgage.self.val.yearly_school_tax, I(12)))
    /\ mortgage.self.val.total_yearly_costs # Zero

\* C19: validation and calculation leave their inputs unchanged: every step
\* of the validator, of the construction of a CalculatedMortgage and of
\* to_result, returning or raising, leaves every field of the properties,
\* their bracket lists, the loan parameters and the expenses as it was
C19_InputsUnchanged == [][conf' = conf]_vars

\* the validator has raised on a configuration with a negative down payment
C19_Witness ==
    /\ Validated
    /\ validation.exc = "ValidationError"
    /\ QLt(conf.loan_parameters.down_payment, Zero)

\* C20: for every configuration that passed validation (so monthly salary
\* > 0 and monthly debt payment >= 0) the calculated TDS ratio is at least
\* the GDS ratio, and equal to it when the monthly debt payment is 0
C20_TdsAtLeastGds ==
    (Validated /\ validation.exc = "none" /\ Calculated) =>
        /\ mortgage.self.exc = "none"
        /\ QGe(mortgage.self.val.tds_ratio, mortgage.self.val.gds_ratio)
        /\ conf.loan_parameters.monthly_debt_payment = Zero =>
              mortgage.self.val.tds_ratio = mortgage.self.val.gds_ratio
        /\ mortgage.out.val.TDS_Ratio = mortgage.self.val.tds_ratio
        /\ mortgage.out.val.GDS_Ratio = mortgage.self.val.gds_ratio

\* a validated configuration without debt payment, calculated with a GDS
\* ratio that is not 0
C20_Witness ==
    /\ Validated /\ validation.exc = "none"
    /\ Constructed
    /\ conf.loan_parameters.monthly_debt_payment = Zero
    /\ QGt(mortgage.self.val.gds_ratio, Zero)

\* the resolver was called for a property that passes validation: a value
\* > 0 and a bracket list on which the checks of lines 84-101 find nothing
ResolvedForValidProperty ==
    /\ Resolved
    /\ QGt(ResolveValue, Zero)
    /\ ResolveBrackets # <<>>
    /\ BracketErrors(ResolveBrackets, 1) = <<>>

\* the brackets whose threshold is the greatest one strictly below the value
GreatestBelow(value, brackets) ==
    {i \in Exceeded(value, brackets) :
        \A j \in Exceeded(value, brackets) :
            QLe(brackets[j].threshold, brackets[i].threshold)}

\* C21: for a property that passes validation the resolved rate is the rate
\* of the bracket with the greatest threshold strictly below the value; the
\* rate of the last bracket is the fallback exactly when the value is at most
\* the lowest threshold; the resolved rate is never negative
C21_GreatestThresholdBelow ==
    ResolvedForValidProperty =>
        LET lowest == ResolveBrackets[Len(ResolveBrackets)].threshold
            below == GreatestBelow(ResolveValue, ResolveBrackets)
        IN  /\ fnCall.out.exc = "none"
            /\ QGe(fnCall.out.val, Zero)
            /\ \A i \in 1..Len(ResolveBrackets) :
                  QGe(ResolveBrackets[i].threshold, lowest)
            /\ IF QLe(ResolveValue, lowest)
               THEN /\ below = {}
                    /\ fnCall.out.val =
                          QDiv(ResolveBrackets[Len(ResolveBrackets)].rate, I(100))
               ELSE /\ Cardinality(below) = 1
                    /\ \A i \in below :
                          fnCall.out.val = QDiv(ResolveBrackets[i].rate, I(100))

\* a valid call whose value lies between the thresholds: the bracket matched
\* is neither the first nor the last, and the three rates differ
C21_Witness ==
    /\ ResolvedForValidProperty
    /\ Len(ResolveBrackets) = 3
    /\ GreatestBelow(ResolveValue, ResolveBrackets) = {2}
    /\ ResolveBrackets[2].rate # ResolveBrackets[1].rate
    /\ ResolveBrackets[2].rate # ResolveBrackets[3].rate

\* the configuration with other values in the fields interest_rate,
\* years_of_loan, notary_cost and inspection_cost of every property
OwnLoanFieldsChanged(c) ==
    [c EXCEPT !.properties =
        [k \in 1..Len(c.properties) |->
            [c.properties[k] EXCEPT !.interest_rate = QSub(Zero, @),
                                    !.years_of_loan = 0,
                                    !.notary_cost = I(-1),
                                    !.inspection_cost = QAdd(@, I(9))]]]

\* C22: the fields interest_rate, years_of_loan, notary_cost and
\* inspection_cost of a property have no influence: a run of validation and
\* calculation on a configuration that differs only in those fields gives
\* the same validation outcome and the same result record (or error)
C22_OwnLoanFieldsUnused ==
    LET other == OwnLoanFieldsChanged(conf)
    IN  /\ Validated => validate_loan_config_and_properties(other) = validation
        /\ Calculated =>
              calculate_mortgage_from_settings(other.properties[mortgage.prop], other)
                  = mortgage.out

\* validation and calculation have run on a configuration whose calculated
\* property has a term and costs of its own, unlike the shared ones
C22_Witness ==
    /\ Validated
    /\ Constructed
    /\ CalculatedProperty.years_of_loan # conf.loan_parameters.years_of_loan
    /\ CalculatedProperty.interest_rate # conf.loan_parameters.interest_rate
    /\ CalculatedProperty.notary_cost # conf.necessary_expenses.notary_cost
    /\ CalculatedProperty.inspection_cost # conf.necessary_expenses.inspection_cost
    /\ OwnLoanFieldsChanged(conf) # conf

====
